---- MODULE Spec2Model ----
(***************************************************************************)
(* The online bookstore of src/index.js as a state machine: the accounts,  *)
(* the catalog, the image store, the session store and the client's        *)
(* session cookie, the persisted orders, and the requests in flight.       *)
(*                                                                         *)
(* Requests overlap.  A request that arrives has its session loaded from   *)
(* the store and then, when the session names a user, the account looked   *)
(* up (express-session, passport.session) before its route starts; it      *)
(* works on its own copy of the session and writes the copy back when its  *)
(* response ends (resave: false).  The middleware and the handlers give    *)
(* way to the other requests at every await, so one step of the model runs *)
(* a request from one access to stored state up to the next: the           *)
(* synchronous code around the access (gates, assignments, flash,          *)
(* redirect) is part of the step.  A response is its kind, status, target  *)
(* or page, and message: the data a page is rendered with is not kept.     *)
(*                                                                         *)
(* Strings the code parses or compares character by character (the admin   *)
(* allow-lists, usernames, emails, the submitted price) are sequences of   *)
(* characters, a character being a one-character string or, where it has   *)
(* no printable form, the name of its code point ("U+00A0"); every other   *)
(* string is a TLA+ string.                                                *)
(*                                                                         *)
(* A number is a double of IEEE 754, as JavaScript holds it: 53 bits of    *)
(* mantissa, exponents from -1074 to 1023, sums and products rounded to    *)
(* the nearest double (ties to even), two zeros, two infinities and NaN.   *)
(*                                                                         *)
(* Of a book, title stands for author, description and category, which the *)
(* handlers treat alike; of an order, customerName stands for the other    *)
(* required contact fields.  A call to a store that fails has no effect on *)
(* the store.  The session store is taken to accept the write at the end   *)
(* of a response; its other failures, and the failure of the lookup of the *)
(* session's user, are modelled where the code receives them.  Nothing in  *)
(* the program catches them (the listener of the store's "error" event     *)
(* logs and is no part of the handling of a request), so they reach the    *)
(* catch-all error layer.                                                  *)
(***************************************************************************)
EXTENDS Integers, Sequences, FiniteSets, TLC

VARIABLES
    accounts,     \* the User collection: a set of [username, email, role, password]
    sessions,     \* the session store: session id -> [user, hasCart, cart, flash]
    cookie,       \* the session id the client's cookie holds
    books,        \* the Book collection: a set of [id, title, price, qty, image]
    nextId,       \* the next _id handed out (ids are never reused)
    imageStore,   \* filenames held by the image store (Cloudinary)
    nextFile,     \* the next filename the image store hands out
    orders,       \* the Order collection, in insertion order
    reqs,         \* slot -> the request it holds and, once served, its response
    served        \* number of requests accepted so far

vars == <<accounts, sessions, cookie, books, nextId, imageStore, nextFile, orders,
          reqs, served>>

\* Everything that outlives a request.
stored == <<accounts, sessions, cookie, books, nextId, imageStore, nextFile, orders>>

----------------------------------------------------------------------------
\* Bounds of the exploration: requests accepted in one behaviour, and files the
\* image store ever holds.
MaxRequests == 2
MaxFiles == 2

\* The requests that can be in flight together.
Slots == {1, 2}

\* req.user is absent (the empty string never names an account).
NoUser == <<>>
Usernames == {<<"a">>, <<"b">>}
Emails == {<<"a", "@">>, <<"r", "@">>}
RegisterPasswords == {"p"}
LoginPasswords == {"p", "q"}

\* process.env.ADMIN_EMAILS = " r@\t,," and process.env.ADMIN_USERNAMES = "b".
ADMIN_EMAILS == <<" ", "r", "@", "\t", ",", ",">>
ADMIN_USERNAMES == <<"b">>

\* An absent (falsy) quantity, an absent image, an absent err.status, no
\* session id.
NoQty == 0
NoFile == 0
NoStatus == 0
NoSid == 0

\* What a handler can be given by a failing collaborator (store, image store,
\* session store): the shape of such an error is not under the program's control.
Errors == {[status |-> NoStatus, message |-> ""], [status |-> 503, message |-> "boom"]}
NoErr == [status |-> NoStatus, message |-> ""]

\* Request bodies.
TitleInputs == {"", "t9"}
PriceInputs == {<<>>, <<"1", "2", ".", "5">>, <<"x">>,
                <<"I", "n", "f", "i", "n", "i", "t", "y">>}
NameInputs == {"", "n"}
BodyTotals == {99}
PaymentInputs == {"card"}
BookIdInputs == {1, 2, 3}

----------------------------------------------------------------------------
\* String helpers, as the JavaScript built-ins compute them.

RECURSIVE Split(_)
\* s.split(","): the pieces between commas; "" splits into [""].
Split(s) ==
    IF s = <<>> THEN << <<>> >>
    ELSE LET rest == Split(Tail(s)) IN
         IF Head(s) = "," THEN << <<>> >> \o rest
         ELSE << <<Head(s)>> \o Head(rest) >> \o Tail(rest)

\* WhiteSpace and LineTerminator of ECMAScript: what trim() strips and what
\* Number() skips around a numeral.
WhiteSpace ==
    {" ", "\t", "\n", "\r", "\f", "U+000B", "U+00A0", "U+FEFF", "U+1680",
     "U+2000", "U+2001", "U+2002", "U+2003", "U+2004", "U+2005", "U+2006",
     "U+2007", "U+2008", "U+2009", "U+200A", "U+2028", "U+2029", "U+202F",
     "U+205F", "U+3000"}

RECURSIVE TrimLeft(_)
TrimLeft(s) == IF s # <<>> /\ Head(s) \in WhiteSpace THEN TrimLeft(Tail(s)) ELSE s

RECURSIVE TrimRight(_)
TrimRight(s) ==
    IF s # <<>> /\ s[Len(s)] \in WhiteSpace
    THEN TrimRight(SubSeq(s, 1, Len(s) - 1)) ELSE s

\* s.trim()
Trim(s) == TrimRight(TrimLeft(s))

\* (env || "").split(",").map(s => s.trim()).filter(Boolean)
AllowList(env) ==
    LET pieces == Split(env)
        trimmed == [i \in 1..Len(pieces) |-> Trim(pieces[i])]
    IN SelectSeq(trimmed, LAMBDA p : p # <<>>)

\* list.includes(x)
Includes(list, x) == \E i \in 1..Len(list) : list[i] = x

----------------------------------------------------------------------------
\* Natural numbers of any size, for the arithmetic on doubles: a sequence of
\* limbs below Base, least significant first, without leading zero limbs
\* (<<>> is 0).  A limb has fifteen bits: the product of two limbs is within the
\* integers of the model checker.

LimbBits == 3 * 5
Base == 2^LimbBits

Max(i, j) == IF i > j THEN i ELSE j
Min(i, j) == IF i < j THEN i ELSE j

Limb(a, i) == IF i <= Len(a) THEN a[i] ELSE 0

BigNorm(a) ==
    IF \A i \in 1..Len(a) : a[i] = 0 THEN <<>>
    ELSE SubSeq(a, 1, CHOOSE i \in 1..Len(a) :
                        a[i] # 0 /\ \A j \in (i + 1)..Len(a) : a[j] = 0)

RECURSIVE BigOf(_)
\* the natural number n
BigOf(n) == IF n = 0 THEN <<>> ELSE <<n % Base>> \o BigOf(n \div Base)

\* -1, 0 or 1 as a < b, a = b or a > b
BigCmp(a, b) ==
    IF Len(a) # Len(b) THEN (IF Len(a) < Len(b) THEN -1 ELSE 1)
    ELSE IF a = b THEN 0
    ELSE LET i == CHOOSE i \in 1..Len(a) :
                     a[i] # b[i] /\ \A j \in (i + 1)..Len(a) : a[j] = b[j]
         IN IF a[i] < b[i] THEN -1 ELSE 1

\* a + b: the carry into a limb comes from the nearest lower limb whose sum is
\* not Base - 1
BigAdd(a, b) ==
    LET n == Max(Len(a), Len(b))
        s == [i \in 1..(n + 1) |-> Limb(a, i) + Limb(b, i)]
        carry(i) == \E j \in 1..(i - 1) :
                       s[j] >= Base /\ \A k \in (j + 1)..(i - 1) : s[k] = Base - 1
    IN BigNorm([i \in 1..(n + 1) |-> (s[i] + (IF carry(i) THEN 1 ELSE 0)) % Base])

\* a - b, for a >= b
BigSub(a, b) ==
    LET d == [i \in 1..Len(a) |-> a[i] - Limb(b, i)]
        borrow(i) == \E j \in 1..(i - 1) :
                        d[j] < 0 /\ \A k \in (j + 1)..(i - 1) : d[k] = 0
    IN BigNorm([i \in 1..Len(a) |->
                  (d[i] - (IF borrow(i) THEN 1 ELSE 0) + Base) % Base])

\* a with n zero limbs below it
ShiftLimbs(a, n) == IF a = <<>> THEN <<>> ELSE [i \in 1..n |-> 0] \o a

\* a * k, for 0 <= k < Base
MulSmall(a, k) ==
    LET p == [i \in 1..Len(a) |-> a[i] * k] IN
    BigAdd([i \in 1..Len(a) |-> p[i] % Base],
           <<0>> \o [i \in 1..Len(a) |-> p[i] \div Base])

RECURSIVE BigMul(_, _)
\* a * b (b is halved, not to nest deep)
BigMul(a, b) ==
    IF a = <<>> \/ b = <<>> THEN <<>>
    ELSE IF Len(b) = 1 THEN MulSmall(a, b[1])
    ELSE LET h == Len(b) \div 2 IN
         BigAdd(BigMul(a, BigNorm(SubSeq(b, 1, h))),
                ShiftLimbs(BigMul(a, SubSeq(b, h + 1, Len(b))), h))

\* a * 2^n
BigShl(a, n) == ShiftLimbs(MulSmall(a, 2^(n % LimbBits)), n \div LimbBits)

\* floor(a / 2^n)
BigShr(a, n) ==
    LET x == SubSeq(a, (n \div LimbBits) + 1, Len(a))
        r == n % LimbBits
    IN BigNorm([i \in 1..Len(x) |->
                  (x[i] \div 2^r) + (Limb(x, i + 1) % 2^r) * 2^(LimbBits - r)])

\* the number of bits of a; bit n of a (bit 0 is the lowest); the low n bits of
\* a are all 0; the number of zero bits below the lowest 1 of a # 0
BigBits(a) ==
    IF a = <<>> THEN 0
    ELSE LimbBits * (Len(a) - 1)
         + (CHOOSE b \in 1..LimbBits : 2^(b - 1) <= a[Len(a)] /\ a[Len(a)] < 2^b)
BigBit(a, n) == (Limb(a, (n \div LimbBits) + 1) \div 2^(n % LimbBits)) % 2
BigLowZero(a, n) ==
    /\ \A i \in 1..Min(Len(a), n \div LimbBits) : a[i] = 0
    /\ Limb(a, (n \div LimbBits) + 1) % 2^(n % LimbBits) = 0
TrailingZeros(a) ==
    LET i == CHOOSE i \in 1..Len(a) : a[i] # 0 /\ \A j \in 1..(i - 1) : a[j] = 0 IN
    LimbBits * (i - 1)
    + (CHOOSE t \in 0..(LimbBits - 1) : a[i] % 2^t = 0 /\ a[i] % 2^(t + 1) # 0)

RECURSIVE BigPow(_, _)
\* k^n, for 0 <= k < Base
BigPow(k, n) ==
    IF n = 0 THEN <<1>>
    ELSE IF n = 1 THEN BigOf(k)
    ELSE LET h == BigPow(k, n \div 2)
             sq == BigMul(h, h)
         IN IF n % 2 = 0 THEN sq ELSE MulSmall(sq, k)

RECURSIVE QuotLimb(_, _, _, _)
\* the largest k in lo..hi with d * k <= r (d * lo <= r is given)
QuotLimb(r, d, lo, hi) ==
    IF lo = hi THEN lo
    ELSE LET mid == (lo + hi + 1) \div 2 IN
         IF BigCmp(MulSmall(d, mid), r) <= 0
         THEN QuotLimb(r, d, mid, hi) ELSE QuotLimb(r, d, lo, mid - 1)

\* short division: floor(r / k) for 0 < k < Base, and whether a remainder is
\* left; rem[i] is what the limbs from i up leave
ShortQuotient(r, k) ==
    LET rem[i \in 1..(Len(r) + 1)] ==
            IF i = Len(r) + 1 THEN 0 ELSE (rem[i + 1] * Base + r[i]) % k
    IN [q |-> BigNorm([i \in 1..Len(r) |-> (rem[i + 1] * Base + r[i]) \div k]),
        sticky |-> rem[1] # 0]

RECURSIVE Quotient(_, _, _)
\* long division, one limb of the quotient at a step: floor(r / d) for
\* r < d * Base^n, and whether a remainder is left.  The two highest limbs of
\* r and the highest limb of d bound the limb of the quotient; a d of one limb
\* is divided by at once.
Quotient(r, d, n) ==
    IF r = <<>> THEN [q |-> <<>>, sticky |-> FALSE]
    ELSE IF Len(d) = 1 THEN ShortQuotient(r, d[1])
    ELSE IF n = 0 THEN [q |-> <<>>, sticky |-> TRUE]
    ELSE LET dn == ShiftLimbs(d, n - 1)
             top == dn[Len(dn)]
             high == Limb(r, Len(dn) + 1) * Base + Limb(r, Len(dn))
             k == QuotLimb(r, dn, high \div (top + 1), Min(Base - 1, high \div top))
             rest == Quotient(BigSub(r, MulSmall(dn, k)), d, n - 1)
         IN [q |-> BigNorm([i \in 1..n |-> IF i = n THEN k ELSE Limb(rest.q, i)]),
             sticky |-> rest.sticky]

----------------------------------------------------------------------------
\* Numbers.  A number is [k, s, m, e]: when k = "number", the double
\* s x m x 2^e, where s is 1 or -1 and m is a natural number (limbs, as above)
\* that is odd, or <<>> with e = 0 for the zero of sign s; else NaN, an
\* infinity of sign s, or null.

Finite(s, m, e) == [k |-> "number", s |-> s, m |-> m, e |-> e]
Zero(s) == Finite(s, <<>>, 0)
NaN == [k |-> "NaN", s |-> 1, m |-> <<>>, e |-> 0]
Infinity(s) == [k |-> "Infinity", s |-> s, m |-> <<>>, e |-> 0]
\* a price stored as null
NullPrice == [k |-> "null", s |-> 1, m |-> <<>>, e |-> 0]

\* The double nearest to s x (q + f) x 2^e, where 0 <= f < 1 and f # 0 exactly
\* when sticky: 53 bits are kept, fewer below 2^-1022, a tie goes to the even
\* neighbour, and what exceeds the largest double is an infinity.  A sticky
\* call has q >= 2^54 or e <= -1076.
Rounded(s, q, e, sticky) ==
    LET lsb == Max(e, Max(e + BigBits(q) - 53, -1074))
        drop == lsb - e
        kept == BigShr(q, drop)
        guard == drop > 0 /\ BigBit(q, drop - 1) = 1
        rest == sticky \/ (drop > 1 /\ ~BigLowZero(q, drop - 1))
        m == IF guard /\ (rest \/ BigBit(kept, 0) = 1) THEN BigAdd(kept, <<1>>) ELSE kept
    IN IF m = <<>> THEN Zero(s)
       ELSE IF BigBits(m) + lsb - 1 > 1023 THEN Infinity(s)
       ELSE LET tz == TrailingZeros(m) IN Finite(s, BigShr(m, tz), lsb + tz)

\* the double of the whole number n
NumberOf(n) == Rounded(IF n < 0 THEN -1 ELSE 1, BigOf(IF n < 0 THEN 0 - n ELSE n), 0, FALSE)

DigitChars ==
    <<"0", "1", "2", "3", "4", "5", "6", "7", "8", "9", "a", "b", "c", "d", "e", "f">>
Lower(c) ==
    CASE c = "A" -> "a" [] c = "B" -> "b" [] c = "C" -> "c"
      [] c = "D" -> "d" [] c = "E" -> "e" [] c = "F" -> "f" [] OTHER -> c
\* c is a digit of the given radix
IsDigitOf(c, radix) == \E d \in 1..radix : DigitChars[d] = Lower(c)
DigitValue(c) == (CHOOSE d \in 1..16 : DigitChars[d] = Lower(c)) - 1
IsDigit(c) == \E d \in 1..10 : DigitChars[d] = c
IsDigits(s) == \A i \in 1..Len(s) : IsDigit(s[i])

RECURSIVE SmallValue(_, _)
\* the value of a short run of digits of the given radix, as an integer
SmallValue(s, radix) ==
    IF s = <<>> THEN 0
    ELSE radix * SmallValue(SubSeq(s, 1, Len(s) - 1), radix) + DigitValue(s[Len(s)])

RECURSIVE RadixValue(_, _)
\* the value of a run of digits of the given radix: seven digits fit an
\* integer, a longer run is halved (not to nest deep)
RadixValue(s, radix) ==
    IF Len(s) <= 7 THEN BigOf(SmallValue(s, radix))
    ELSE LET h == Len(s) \div 2 IN
         BigAdd(BigMul(RadixValue(SubSeq(s, 1, h), radix), BigPow(radix, Len(s) - h)),
                RadixValue(SubSeq(s, h + 1, Len(s)), radix))

DecimalValue(s) == RadixValue(s, 10)

\* the first place of s that holds one of cs, 0 when none does
FirstIndex(s, cs) ==
    IF \E i \in 1..Len(s) : s[i] \in cs
    THEN CHOOSE i \in 1..Len(s) : s[i] \in cs /\ \A j \in 1..(i - 1) : s[j] \notin cs
    ELSE 0

Unsigned(s) == IF s # <<>> /\ Head(s) \in {"+", "-"} THEN Tail(s) ELSE s
SignOf(s) == IF s # <<>> /\ Head(s) = "-" THEN -1 ELSE 1

\* s without its leading zeros
StripZeros(s) ==
    IF \A i \in 1..Len(s) : s[i] = "0" THEN <<>>
    ELSE SubSeq(s, CHOOSE i \in 1..Len(s) : s[i] # "0" /\ \A j \in 1..(i - 1) : s[j] = "0",
                Len(s))

\* The exponent part of a decimal literal, kept within bound either way.  The
\* bound is 400 more than the length of the mantissa: an exponent that large
\* sends every mantissa of that length but zero past the largest double, its
\* negative sends it below the smallest.
ExponentOf(expo, bound) ==
    LET digits == StripZeros(Unsigned(expo)) IN
    SignOf(expo) * (IF Len(digits) > 9 THEN bound ELSE Min(SmallValue(digits, 10), bound))

\* The radix of a 0x, 0o or 0b literal, 0 when s is none.
PrefixRadix(s) ==
    IF Len(s) < 2 \/ s[1] # "0" THEN 0
    ELSE CASE s[2] \in {"x", "X"} -> 16
           [] s[2] \in {"o", "O"} -> 8
           [] s[2] \in {"b", "B"} -> 2
           [] OTHER -> 0

\* The double of sign x digits x 10^e, digits having no leading zero:
\* digits x 5^e x 2^e, by a multiplication when e >= 0 and by a division with
\* two bits to spare when e < 0 (the divisor is brought to fill its highest
\* limb, and the dividend with it).
Decimal(sign, digits, e) ==
    LET order == Len(digits) + e - 1 IN
    IF digits = <<>> THEN Zero(sign)
    ELSE IF order > 310 THEN Infinity(sign)
    ELSE IF order < -326 THEN Zero(sign)
    ELSE IF e >= 0
         THEN Rounded(sign, BigMul(DecimalValue(digits), BigPow(5, e)), e, FALSE)
    ELSE LET n == DecimalValue(digits)
             d == BigPow(5, 0 - e)
             shift == Min(55 - (BigBits(n) - BigBits(d)), e + 1076)
             up == Max(shift, 0)
             down == Max(0 - shift, 0)
             fill == (LimbBits - ((BigBits(d) + down) % LimbBits)) % LimbBits
             quot == Quotient(BigShl(n, up + fill), BigShl(d, down + fill), 4)
         IN Rounded(sign, quot.q, e - shift, quot.sticky)

\* StrDecimalLiteral without its sign: digits, a fraction, an exponent.
DecimalLiteral(u, sign) ==
    LET ePos == FirstIndex(u, {"e", "E"})
        mant == IF ePos = 0 THEN u ELSE SubSeq(u, 1, ePos - 1)
        expo == IF ePos = 0 THEN <<>> ELSE SubSeq(u, ePos + 1, Len(u))
        dot  == FirstIndex(mant, {"."})
        int  == IF dot = 0 THEN mant ELSE SubSeq(mant, 1, dot - 1)
        frac == IF dot = 0 THEN <<>> ELSE SubSeq(mant, dot + 1, Len(mant))
    IN IF /\ IsDigits(int) /\ IsDigits(frac)
          /\ (int # <<>> \/ frac # <<>>)
          /\ (ePos = 0 \/ (Unsigned(expo) # <<>> /\ IsDigits(Unsigned(expo))))
       THEN Decimal(sign, StripZeros(int \o frac), ExponentOf(expo, Len(mant) + 400) - Len(frac))
       ELSE NaN

\* Number(s) of a string s (StringToNumber).
ToNumber(s) ==
    LET t == Trim(s)
        radix == PrefixRadix(t)
        digits == SubSeq(t, 3, Len(t))
        u == Unsigned(t)
    IN IF t = <<>> THEN Zero(1)
       ELSE IF radix # 0
            THEN IF digits # <<>> /\ \A i \in 1..Len(digits) : IsDigitOf(digits[i], radix)
                 THEN Rounded(1, RadixValue(digits, radix), 0, FALSE)
                 ELSE NaN
       ELSE IF u = <<"I", "n", "f", "i", "n", "i", "t", "y">> THEN Infinity(SignOf(t))
       ELSE DecimalLiteral(u, SignOf(t))

\* null as a number is +0
Numeric(x) == IF x.k = "null" THEN Zero(1) ELSE x

\* a + b
Plus(a, b) ==
    LET x == Numeric(a)
        y == Numeric(b)
        low == Min(x.e, y.e)
        p == BigShl(x.m, x.e - low)
        q == BigShl(y.m, y.e - low)
    IN CASE x.k = "NaN" \/ y.k = "NaN" -> NaN
         [] x.k = "Infinity" /\ y.k = "Infinity" -> IF x.s = y.s THEN x ELSE NaN
         [] x.k = "Infinity" -> x
         [] y.k = "Infinity" -> y
         [] x.m = <<>> /\ y.m = <<>> -> Zero(IF x.s = -1 /\ y.s = -1 THEN -1 ELSE 1)
         [] x.m = <<>> -> y
         [] y.m = <<>> -> x
         [] x.s = y.s -> Rounded(x.s, BigAdd(p, q), low, FALSE)
         [] BigCmp(p, q) = 0 -> Zero(1)
         [] BigCmp(p, q) > 0 -> Rounded(x.s, BigSub(p, q), low, FALSE)
         [] OTHER -> Rounded(y.s, BigSub(q, p), low, FALSE)

\* a * b
Times(a, b) ==
    LET x == Numeric(a)
        y == Numeric(b)
    IN CASE x.k = "NaN" \/ y.k = "NaN" -> NaN
         [] x.k = "Infinity" \/ y.k = "Infinity" ->
              IF (x.k = "number" /\ x.m = <<>>) \/ (y.k = "number" /\ y.m = <<>>)
              THEN NaN ELSE Infinity(x.s * y.s)
         [] OTHER -> Rounded(x.s * y.s, BigMul(x.m, y.m), x.e + y.e, FALSE)

\* JSON.parse(JSON.stringify(x)) of a number: NaN and the infinities become
\* null, -0 becomes 0.
JSONNumber(x) ==
    IF x.k \in {"NaN", "Infinity"} THEN NullPrice
    ELSE IF x.k = "number" /\ x.m = <<>> THEN Zero(1)
    ELSE x

----------------------------------------------------------------------------
\* Responses and requests.

NoResp == [kind |-> "none", to |-> "", page |-> "", status |-> 0,
           message |-> "", flash |-> <<>>]

\* res.redirect(to), after req.flash(type, text + detail).
Redirect(to, flash) ==
    [kind |-> "redirect", to |-> to, page |-> "", status |-> 302,
     message |-> "", flash |-> flash]

\* res.status(status).send(text).
Send(status, text) ==
    [kind |-> "send", to |-> "", page |-> "", status |-> status,
     message |-> text, flash |-> <<>>]

\* res.status(status).render(page, {message}).
Render(page, status, message) ==
    [kind |-> "render", to |-> "", page |-> page, status |-> status,
     message |-> message, flash |-> <<>>]

\* A session as the session store creates it (also after session.regenerate).
FreshSession == [user |-> NoUser, hasCart |-> FALSE, cart |-> <<>>, flash |-> <<>>]

NoAccount == [username |-> NoUser, email |-> <<>>, role |-> "", password |-> ""]
NoBook == [id |-> 0, title |-> "", price |-> NullPrice, qty |-> NoQty, image |-> NoFile]
NoBody == [username |-> <<>>, email |-> <<>>, password |-> "", id |-> 0, title |-> "",
           price |-> <<>>, name |-> "", paymentMethod |-> "", totalAmount |-> 0]

\* An empty slot.  Of a request: its route (op), the middleware of the route it
\* is at (pc; 0 on the way to the route) and the await it is at inside that
\* middleware (at); whether it has a session (loaded), req.sessionID (sid; NoSid
\* for a session not yet in the store), the id its cookie named (cookieId), its
\* copy of the session (sess) and the session as loaded (orig); req.user,
\* req.body and req.params, req.file, the document findById returned (found);
\* the error given to next (err) and the response.
Free == [st |-> "free", op |-> "none", pc |-> 0, at |-> "", loaded |-> FALSE,
         sid |-> NoSid,
         cookieId |-> NoSid, sess |-> FreshSession, orig |-> FreshSession,
         user |-> NoAccount, body |-> NoBody, file |-> NoFile, found |-> NoBook,
         threw |-> FALSE, err |-> NoErr, resp |-> NoResp]

\* GET /, /contact, /about, /login and /register
StaticPages == {"root", "contactPage", "about", "loginPage", "registerPage"}

\* The view each of them renders.
PageOf(op) ==
    CASE op = "root"         -> "home"
      [] op = "contactPage"  -> "contact"
      [] op = "about"        -> "about"
      [] op = "loginPage"    -> "user/login"
      [] op = "registerPage" -> "user/signup"

\* The middleware chain of each route, in the order the route lists it.
Chain(op) ==
    CASE op = "register"      -> <<"registerHandler">>
      [] op = "login"         -> <<"authenticate", "loginHandler">>
      [] op = "logout"        -> <<"logoutHandler">>
      [] op = "postBooks"     -> <<"upload", "isLoggedIn", "isAdmin", "createBook">>
      [] op = "postNew"       -> <<"upload", "isLoggedIn", "isAdmin", "createBook">>
      [] op = "editForm"      -> <<"isLoggedIn", "isAdmin", "editFormHandler">>
      [] op = "putBook"       -> <<"isLoggedIn", "isAdmin", "upload", "updateBook">>
      [] op = "deleteBook"    -> <<"isLoggedIn", "isAdmin", "deleteBookHandler">>
      [] op = "cartAdd"       -> <<"isLoggedIn", "cartAddHandler">>
      [] op = "cartView"      -> <<"isLoggedIn", "cartViewHandler">>
      [] op = "cartRemove"    -> <<"isLoggedIn", "cartRemoveHandler">>
      [] op = "completeOrder" -> <<"completeOrderHandler">>
      [] op = "dashboard"     -> <<"isLoggedIn", "isAdmin", "dashboardHandler">>
      [] op = "listing"       -> <<"listingHandler">>
      [] op = "category"      -> <<"categoryHandler">>
      [] op = "home"          -> <<"homeHandler">>
      [] op = "details"       -> <<"detailsHandler">>
      [] op = "getNew"        -> <<"isLoggedIn", "isAdmin", "newFormHandler">>
      [] op = "contact"       -> <<"contactHandler">>
      [] op = "checkoutView"  -> <<"isLoggedIn", "checkoutViewHandler">>
      [] op \in StaticPages   -> <<"staticPage">>
      [] op = "unknown"       -> <<"notFound">>

Ops == {"register", "login", "logout", "postBooks", "postNew", "editForm",
        "putBook", "deleteBook", "cartAdd", "cartView", "cartRemove",
        "completeOrder", "dashboard", "listing", "category", "home", "details",
        "getNew", "contact", "checkoutView", "unknown"} \cup StaticPages

\* What express.urlencoded and the router read of a request when it arrives:
\* the form fields, or the :id of the path.  A multipart form (the three routes
\* with an upload) is read by multer instead.
BodiesOf(op) ==
    CASE op = "register" ->
           {[NoBody EXCEPT !.username = u, !.email = m, !.password = p] :
              u \in Usernames, m \in Emails, p \in RegisterPasswords}
      [] op = "login" ->
           {[NoBody EXCEPT !.username = u, !.password = p] :
              u \in Usernames, p \in LoginPasswords}
      [] op \in {"editForm", "putBook", "deleteBook", "cartAdd", "cartRemove",
                 "details"} ->
           {[NoBody EXCEPT !.id = i] : i \in BookIdInputs}
      [] op = "completeOrder" ->
           {[NoBody EXCEPT !.name = n, !.paymentMethod = pm, !.totalAmount = t] :
              n \in NameInputs, pm \in PaymentInputs, t \in BodyTotals}
      [] OTHER -> {NoBody}

\* next()
Advance(q) == [q EXCEPT !.pc = @ + 1, !.at = ""]

\* req.flash(type, text), if any, and the response: what is left of the request
\* is the write-back of its session.
Respond(q, r) ==
    [q EXCEPT !.st = "ending", !.resp = r,
              !.sess.flash = IF r.flash = <<>> THEN @ ELSE Append(@, r.flash)]

\* err.status || 500
ErrorStatus(e) == IF e.status # NoStatus THEN e.status ELSE 500
\* err.message || "Something went wrong!"
ErrorMessage(e) == IF e.message # "" THEN e.message ELSE "Something went wrong!"

\* app.use((err, req, res, next) => ...)
ErrorHandler(q, e) ==
    [Respond(q, Render("error", ErrorStatus(e), ErrorMessage(e)))
       EXCEPT !.threw = TRUE, !.err = e]

\* next(err): the remaining middleware is skipped up to the error handler
NextErr(q, e) == ErrorHandler(q, e)
\* The promise an async handler returned is rejected with e: the catch-all
\* layer receives e.
Reject(q, e) == ErrorHandler(q, e)

\* app.use((req, res) => ...): no route matched
NotFound(q) == Respond(q, Render("error", 404, "Page Not Found"))

----------------------------------------------------------------------------
\* Identity.

AccountOf(u) == CHOOSE a \in accounts : a.username = u

\* passport.deserializeUser: the account the session names
Deserialize(s) ==
    IF s.user # NoUser /\ \E a \in accounts : a.username = s.user
    THEN AccountOf(s.user) ELSE NoAccount

\* req.isAuthenticated()
IsAuthenticated(q) == q.user # NoAccount

\* req.isAuthenticated() && req.user.role === "admin"
IsAdminUser(q) == IsAuthenticated(q) /\ q.user.role = "admin"

IsLoggedIn(q) ==
    IF IsAuthenticated(q) THEN Advance(q)
    ELSE Respond(q, Redirect("/login",
           <<"error", "You must be logged in to perform this action.", "">>))

IsAdmin(q) ==
    IF IsAdminUser(q) THEN Advance(q)
    ELSE Respond(q, Redirect("/books",
           <<"error", "You must be an admin to perform this action.", "">>))

\* RoleFor that forgets the username allow-list.
RoleForEmailOnly(username, email) ==
    IF Includes(AllowList(ADMIN_EMAILS), email) THEN "admin" ELSE "user"

\* The role a registration gives.
RoleFor(username, email) ==
    IF Includes(AllowList(ADMIN_EMAILS), email)
       \/ Includes(AllowList(ADMIN_USERNAMES), username)
    THEN "admin" ELSE "user"

\* POST /login, second middleware
LoginHandler(q) == Respond(q, Redirect("/books", <<"success", "Welcome Back!", "">>))

----------------------------------------------------------------------------
\* Cart and orders.

\* req.session.cart || []
CartOf(s) == IF s.hasCart THEN s.cart ELSE <<>>

\* if (!req.session.cart) req.session.cart = []; req.session.cart.push(book)
CartPush(s, book) == [s EXCEPT !.hasCart = TRUE, !.cart = Append(CartOf(s), book)]

RECURSIVE CartFilterFirst(_, _)
\* CartFilter that drops only the first matching entry.
CartFilterFirst(cart, bookId) ==
    IF cart = <<>> THEN <<>>
    ELSE IF Head(cart).id = bookId THEN Tail(cart)
    ELSE <<Head(cart)>> \o CartFilterFirst(Tail(cart), bookId)

\* req.session.cart.filter(item => item._id.toString() !== bookId)
CartFilter(cart, bookId) == SelectSeq(cart, LAMBDA item : item.id # bookId)

\* GET /cart
CartViewHandler(q) == Respond(q, Render("cart", 200, ""))

\* GET /checkout
CheckoutViewHandler(q) == Respond(q, Render("checkout", 200, ""))

\* GET /new
NewFormHandler(q) == Respond(q, Render("new", 200, ""))

\* The static pages.
StaticPage(q) == Respond(q, Render(PageOf(q.op), 200, ""))

\* POST /cart/remove
CartRemoveHandler(q) ==
    IF ~q.sess.hasCart THEN Respond(q, Redirect("/cart", <<>>))
    ELSE Respond([q EXCEPT !.sess.cart = CartFilter(@, q.body.id)],
                 Redirect("/cart",
                   <<"success", "Book Removed from Cart Successfully", "">>))

\* item.quantity || 1
QtyOrOne(q) == IF q # NoQty THEN q ELSE 1

RECURSIVE CartSum(_)
\* cart.reduce((sum, item) => sum + item.price * (item.quantity || 1), 0)
CartSum(cart) ==
    IF cart = <<>> THEN Zero(1)
    ELSE Plus(CartSum(SubSeq(cart, 1, Len(cart) - 1)),
              Times(cart[Len(cart)].price, NumberOf(QtyOrOne(cart[Len(cart)].qty))))

\* TotalAmount that trusts the client.
TotalAmountFromBody(cart, body) == NumberOf(body.totalAmount)

\* The totalAmount of the order built from the cart and the request body.
TotalAmount(cart, body) == CartSum(cart)

\* One line item of the order, from one cart entry.
LineItem(item) ==
    [bookId |-> item.id, title |-> item.title, price |-> item.price,
     quantity |-> QtyOrOne(item.qty)]

\* paymentMethod === "cod" ? "Cash on Delivery" : "Cash on Delivery"
PaymentLabel(pm) == IF pm = "cod" THEN "Cash on Delivery" ELSE "Cash on Delivery"

\* new Order({...})
NewOrder(body, cart) ==
    [customerName |-> body.name,
     books |-> [i \in 1..Len(cart) |-> LineItem(cart[i])],
     paymentMethod |-> PaymentLabel(body.paymentMethod),
     totalAmount |-> TotalAmount(cart, body),
     status |-> "Pending"]

\* The schema's validators: required strings, numbers that are numbers.
ValidOrder(o) ==
    /\ o.customerName # ""
    /\ o.totalAmount.k # "NaN"
    /\ \A i \in 1..Len(o.books) : o.books[i].price.k # "NaN"

\* CartIsEmpty that only notices a missing cart.
CartIsMissing(s) == ~s.hasCart

\* cart.length === 0
CartIsEmpty(s) == Len(CartOf(s)) = 0

\* SessionAfterSave that clears the cart before the save is known to succeed.
SessionClearedFirst(s, saved) == [s EXCEPT !.hasCart = TRUE, !.cart = <<>>]

\* await newOrder.save(); req.session.cart = [];
SessionAfterSave(s, saved) ==
    IF saved THEN [s EXCEPT !.hasCart = TRUE, !.cart = <<>>] ELSE s

\* POST /complete-order up to newOrder.save()
CompleteOrderEntry(q) ==
    IF CartIsEmpty(q.sess)
    THEN Respond(q, Redirect("/cart",
           <<"error", "Cart is empty. Please add items before checkout.", "">>))
    ELSE [q EXCEPT !.at = "order"]

RECURSIVE RunLocal(_)
\* The request runs on, middleware after middleware, up to its response or to
\* the next call that reaches a store.
RunLocal(q) ==
    IF q.st # "run" \/ q.pc = 0 THEN q
    ELSE LET mw == Chain(q.op)[q.pc] IN
         CASE mw = "isLoggedIn"        -> RunLocal(IsLoggedIn(q))
           [] mw = "isAdmin"           -> RunLocal(IsAdmin(q))
           [] mw = "loginHandler"      -> LoginHandler(q)
           [] mw = "cartViewHandler"   -> CartViewHandler(q)
           [] mw = "cartRemoveHandler" -> CartRemoveHandler(q)
           [] mw = "checkoutViewHandler" -> CheckoutViewHandler(q)
           [] mw = "newFormHandler"    -> NewFormHandler(q)
           [] mw = "staticPage"        -> StaticPage(q)
           [] mw = "notFound"          -> NotFound(q)
           [] mw = "completeOrderHandler" /\ q.at = "" -> CompleteOrderEntry(q)
           [] OTHER -> q

----------------------------------------------------------------------------
\* The session store.

\* JSON.parse(JSON.stringify(session)): how a session is held in the store.
JSONSession(s) ==
    [s EXCEPT !.cart = [i \in 1..Len(s.cart) |-> [s.cart[i] EXCEPT !.price = JSONNumber(@)]]]

\* Session ids in use, and a new one.
UsedSids ==
    (DOMAIN sessions \cup {cookie} \cup {reqs[r].sid : r \in Slots}
       \cup {reqs[r].cookieId : r \in Slots}) \ {NoSid}
NewSid ==
    CHOOSE n \in 1..(Cardinality(UsedSids) + 1) :
        n \notin UsedSids /\ \A m \in 1..(n - 1) : m \in UsedSids

\* store.set(sid, session)
StoreSet(sid, s) == (sid :> JSONSession(s)) @@ sessions
\* store.destroy(sid)
StoreDestroy(sid) == [n \in DOMAIN sessions \ {sid} |-> sessions[n]]

\* A request as it arrives: its route, its body or path parameter, the session
\* id of its cookie.
Arrived(op, body) ==
    [Free EXCEPT !.st = "run", !.op = op, !.at = "load", !.body = body,
                 !.cookieId = cookie]

\* The request with the session the store returned for its cookie, or with a
\* new one when the store has none.
WithSession(q) ==
    LET known == q.cookieId \in DOMAIN sessions
        session == IF known THEN sessions[q.cookieId] ELSE FreshSession
    IN [q EXCEPT !.loaded = TRUE, !.sid = IF known THEN q.cookieId ELSE NoSid,
                 !.orig = session, !.sess = session]

\* The request with req.user; a session whose user is no longer found loses it.
WithUser(q) ==
    [q EXCEPT !.user = Deserialize(q.sess),
              !.sess.user = IF Deserialize(q.sess) = NoAccount THEN NoUser ELSE @]

\* The locals middleware takes the flash messages out of the session for the
\* page, and the router follows.
Enter(q) == [q EXCEPT !.sess.flash = <<>>, !.pc = 1, !.at = ""]

\* The session is written at the end of the response when it is new or differs
\* from what was loaded; a request without a session writes none.
ShouldSave(q) ==
    q.loaded /\ (q.sid = NoSid \/ q.sid # q.cookieId \/ JSONSession(q.sess) # q.orig)

\* What a slot keeps of an answered request.
Finished(q, sid) ==
    [Free EXCEPT !.st = "done", !.op = q.op, !.sid = sid, !.threw = q.threw,
                 !.err = q.err, !.resp = q.resp]

----------------------------------------------------------------------------
\* The catalog the store starts with. Book 2 carries a quantity, a field no
\* route of the program writes: only a document put into the collection from
\* outside has one.
Seeds ==
    {[id |-> 1, title |-> "t1", price |-> NumberOf(10), qty |-> NoQty, image |-> NoFile],
     [id |-> 2, title |-> "t2", price |-> NumberOf(5), qty |-> 2, image |-> 1]}

\* The account of a first registration, as POST /register writes it.
FirstAccount ==
    [username |-> <<"b">>, email |-> <<"b", "@">>,
     role |-> RoleFor(<<"b">>, <<"b", "@">>), password |-> "p"]

\* The server starts on what earlier runs left in the stores: nothing but the
\* catalog, or also a first account whose session holds book 1 in its cart.
Init ==
    /\ books = Seeds
    /\ nextId = 3
    /\ imageStore = {1}
    /\ nextFile = 2
    /\ orders = <<>>
    /\ reqs = [r \in Slots |-> Free]
    /\ served = 0
    /\ \/ /\ accounts = {}
          /\ sessions = <<>>
          /\ cookie = NoSid
       \/ /\ accounts = {FirstAccount}
          /\ sessions = (1 :> CartPush([FreshSession EXCEPT !.user = FirstAccount.username],
                                       CHOOSE b \in Seeds : b.id = 1))
          /\ cookie = 1

\* The request in slot r is at the given await of the given middleware.
Running(r, mw, at) ==
    /\ reqs[r].st = "run"
    /\ reqs[r].pc >= 1
    /\ Chain(reqs[r].op)[reqs[r].pc] = mw
    /\ reqs[r].at = at

\* The request in slot r becomes q and runs on to its next store call.
Step(r, q) == reqs' = [reqs EXCEPT ![r] = RunLocal(q)]

\* A client sends a request: it takes the first slot that holds no request in
\* flight.
Submit ==
    /\ served < MaxRequests
    /\ served' = served + 1
    /\ \E r \in Slots :
         /\ reqs[r].st \in {"free", "done"}
         /\ \A r2 \in Slots : reqs[r2].st \in {"free", "done"} => r <= r2
         /\ \E op \in Ops : \E body \in BodiesOf(op) : Step(r, Arrived(op, body))
    /\ UNCHANGED stored

\* The session middleware: store.get of the session the cookie names.  A
\* request without a cookie has a new session and the store is not read; a
\* read that fails is handed to next.
SessionLoad(r) ==
    /\ reqs[r].st = "run" /\ reqs[r].pc = 0 /\ reqs[r].at = "load"
    /\ LET q == WithSession(reqs[r]) IN
       \/ /\ reqs[r].cookieId # NoSid
          /\ \E e \in Errors : Step(r, NextErr(reqs[r], e))
       \/ Step(r, IF q.sess.user # NoUser THEN [q EXCEPT !.at = "deserialize"]
                  ELSE Enter(q))
    /\ UNCHANGED <<stored, served>>

\* passport.session(): deserializeUser looks up the account the session
\* names in the User collection; a lookup that fails is handed to next.
DeserializeUser(r) ==
    /\ reqs[r].st = "run" /\ reqs[r].pc = 0 /\ reqs[r].at = "deserialize"
    /\ \/ \E e \in Errors : Step(r, NextErr(reqs[r], e))
       \/ Step(r, Enter(WithUser(reqs[r])))
    /\ UNCHANGED <<stored, served>>

\* The response ends: the session is written back and the cookie is set.
End(r) ==
    /\ reqs[r].st = "ending"
    /\ LET q == reqs[r]
           sid == IF q.sid = NoSid THEN NewSid ELSE q.sid
       IN IF ShouldSave(q)
          THEN /\ sessions' = StoreSet(sid, q.sess)
               /\ cookie' = sid
               /\ reqs' = [reqs EXCEPT ![r] = Finished(q, sid)]
          ELSE /\ UNCHANGED <<sessions, cookie>>
               /\ reqs' = [reqs EXCEPT ![r] = Finished(q, q.sid)]
    /\ UNCHANGED <<accounts, books, nextId, imageStore, nextFile, orders, served>>

\* multer's upload.single("image"): the form fields are read; the request
\* carries no file, or its file is stored in the image store and described in
\* req.file, or the upload fails.
Upload(r) ==
    /\ Running(r, "upload", "")
    /\ \/ \E title \in TitleInputs, price \in PriceInputs :
            LET q == [reqs[r] EXCEPT !.body.title = title, !.body.price = price] IN
            \/ /\ Step(r, Advance(q))
               /\ UNCHANGED <<imageStore, nextFile>>
            \/ /\ nextFile <= MaxFiles
               /\ imageStore' = imageStore \cup {nextFile}
               /\ nextFile' = nextFile + 1
               /\ Step(r, [Advance(q) EXCEPT !.file = nextFile])
       \/ /\ \E e \in Errors : Step(r, NextErr(reqs[r], e))
          /\ UNCHANGED <<imageStore, nextFile>>
    /\ UNCHANGED <<accounts, sessions, cookie, books, nextId, orders, served>>

\* What the catch of POST /register answers.
RegisterFailed(q, msg) ==
    Respond(q, Redirect("/register", <<"error", "Registration Error: ", msg>>))

\* POST /register up to the lookup of User.register (findByUsername)
RegisterHandler(r) ==
    /\ Running(r, "registerHandler", "")
    /\ LET q == reqs[r] IN
       \/ /\ \E a \in accounts : a.username = q.body.username
          /\ Step(r, RegisterFailed(q,
                       "A user with the given username is already registered"))
       \/ \E e \in Errors : Step(r, RegisterFailed(q, e.message))
       \/ /\ ~ \E a \in accounts : a.username = q.body.username
          /\ Step(r, [q EXCEPT !.at = "insert"])
    /\ UNCHANGED <<stored, served>>

\* User.register, the insert: the unique indexes on username and email decide
RegisterInsert(r) ==
    /\ Running(r, "registerHandler", "insert")
    /\ LET q == reqs[r]
           user == [username |-> q.body.username, email |-> q.body.email,
                    role |-> RoleFor(q.body.username, q.body.email),
                    password |-> q.body.password]
       IN
       \/ /\ \E a \in accounts : a.username = user.username \/ a.email = user.email
          /\ Step(r, RegisterFailed(q, "E11000 duplicate key error"))
          /\ UNCHANGED accounts
       \/ /\ \E e \in Errors : Step(r, RegisterFailed(q, e.message))
          /\ UNCHANGED accounts
       \/ /\ ~ \E a \in accounts : a.username = user.username \/ a.email = user.email
          /\ accounts' = accounts \cup {user}
          \* req.login(registeredUser, ...) begins
          /\ Step(r, [q EXCEPT !.at = "regenerate", !.user = user])
    /\ UNCHANGED <<sessions, cookie, books, nextId, imageStore, nextFile, orders, served>>

\* POST /login, first middleware: passport.authenticate("local", ...) up to
\* req.logIn
Authenticate(r) ==
    /\ Running(r, "authenticate", "")
    /\ LET q == reqs[r]
           match == {a \in accounts : a.username = q.body.username
                                      /\ a.password = q.body.password}
       IN
       \/ \E a \in match : Step(r, [q EXCEPT !.at = "regenerate", !.user = a])
       \/ /\ match = {}
          /\ Step(r, Respond(q, Redirect("/login",
                       <<"error", "Password or username is incorrect", "">>)))
       \/ \E e \in Errors : Step(r, NextErr(q, e))
    /\ UNCHANGED <<stored, served>>

\* GET /logout: req.logout takes the user out of the session and saves it
LogoutHandler(r) ==
    /\ Running(r, "logoutHandler", "")
    /\ LET q == [reqs[r] EXCEPT !.user = NoAccount, !.sess.user = NoUser]
           sid == IF q.sid = NoSid THEN NewSid ELSE q.sid
       IN
       \/ /\ sessions' = StoreSet(sid, q.sess)
          /\ Step(r, [q EXCEPT !.sid = sid, !.at = "regenerate"])
       \/ /\ \E e \in Errors : Step(r, NextErr(q, e))
          /\ UNCHANGED sessions
    /\ UNCHANGED <<accounts, cookie, books, nextId, imageStore, nextFile, orders, served>>

\* req.session.regenerate of req.login and req.logout: the session is destroyed
\* in the store and the request goes on with a new, empty one
Regenerate(r) ==
    /\ reqs[r].st = "run" /\ reqs[r].at = "regenerate"
    /\ LET q == reqs[r]
           fresh == [q EXCEPT !.sid = NoSid, !.sess = FreshSession]
       IN
       \/ /\ sessions' = StoreDestroy(q.sid)
          /\ Step(r, IF q.op = "logout"
                     THEN Respond(fresh, Redirect("/books",
                            <<"success", "Logged Out Successfully", "">>))
                     ELSE [fresh EXCEPT !.sess.user = q.user.username, !.at = "save"])
       \/ /\ \E e \in Errors : Step(r, NextErr([fresh EXCEPT !.user = NoAccount], e))
          /\ UNCHANGED sessions
    /\ UNCHANGED <<accounts, cookie, books, nextId, imageStore, nextFile, orders, served>>

\* req.session.save of req.login: the new session, which names the user, is
\* written to the store
SessionSave(r) ==
    /\ reqs[r].st = "run" /\ reqs[r].at = "save"
    /\ reqs[r].op \in {"register", "login"}
    /\ LET q == reqs[r] IN
       \/ /\ sessions' = StoreSet(NewSid, q.sess)
          /\ Step(r, IF q.op = "register"
                     THEN Respond([q EXCEPT !.sid = NewSid], Redirect("/books",
                            <<"success", "User Registered Successfully", "">>))
                     ELSE Advance([q EXCEPT !.sid = NewSid]))
       \/ /\ \E e \in Errors : Step(r, NextErr([q EXCEPT !.user = NoAccount], e))
          /\ UNCHANGED sessions
    /\ UNCHANGED <<accounts, cookie, books, nextId, imageStore, nextFile, orders, served>>

----------------------------------------------------------------------------
\* Catalog.

BookById(id) == {b \in books : b.id = id}

\* The price Mongoose stores for a submitted string (its Number cast): "" is
\* cast to null, any other string to Number(string); NaN fails validation.
CastPrice(p) == IF p = <<>> THEN NullPrice ELSE ToNumber(p)

\* POST /books and POST /new: new Book({...}), book.image from req.file, book.save()
CreateBook(r) ==
    /\ Running(r, "createBook", "")
    /\ LET q == reqs[r]
           price == CastPrice(q.body.price)
           failed(msg) ==
               Respond(q, Redirect("/new",
                 IF q.op = "postBooks"
                 THEN <<"error", "Error adding book: ", msg>>
                 ELSE <<"error", "Failed to add book. Please try again.", "">>))
       IN
       \/ \* the store fails
          /\ \E e \in Errors : Step(r, failed(e.message))
          /\ UNCHANGED <<books, nextId>>
       \/ \* the document is saved
          /\ price # NaN
          /\ books' = books \cup {[id |-> nextId, title |-> q.body.title,
                                   price |-> price, qty |-> NoQty,
                                   image |-> q.file]}
          /\ nextId' = nextId + 1
          /\ Step(r, Respond(q, Redirect("/books",
                       <<"success", IF q.op = "postBooks"
                                    THEN "Book Added Successfully"
                                    ELSE "New book added successfully!", "">>)))
       \/ \* validation fails on the price
          /\ price = NaN
          /\ Step(r, failed("Cast to Number failed"))
          /\ UNCHANGED <<books, nextId>>
    /\ UNCHANGED <<accounts, sessions, cookie, imageStore, nextFile, orders, served>>

\* GET /books/:id/edit (no try/catch)
EditFormHandler(r) ==
    /\ Running(r, "editFormHandler", "")
    /\ LET q == reqs[r] IN
       \/ \E e \in Errors : Step(r, Reject(q, e))
       \/ /\ BookById(q.body.id) = {}
          /\ Step(r, Respond(q, Redirect("/books", <<"error", "Book not found", "">>)))
       \/ /\ BookById(q.body.id) # {}
          /\ Step(r, Respond(q, Render("edit", 200, "")))
    /\ UNCHANGED <<stored, served>>

\* value || old
OrOld(value, old) == IF value # "" THEN value ELSE old

\* The fields PUT /books/:id assigns before book.save().
Updated(book, title, price, file) ==
    [book EXCEPT !.title = OrOld(title, book.title),
                 !.price = IF price # <<>> THEN ToNumber(price) ELSE book.price,
                 !.image = IF file # NoFile THEN file ELSE book.image]

\* a === b of two prices: the two zeros are equal
SameNumber(a, b) ==
    a = b \/ (a.k = "number" /\ b.k = "number" /\ a.m = <<>> /\ b.m = <<>>)

\* The handler changed a path of the document it found.
Modified(found, doc) ==
    \/ doc.title # found.title
    \/ ~SameNumber(doc.price, found.price)
    \/ doc.image # found.image

\* What book.save() writes: the paths the handler changed, onto the stored
\* document.
SavedOver(current, found, doc) ==
    [current EXCEPT !.title = IF doc.title # found.title THEN doc.title ELSE @,
                    !.price = IF ~SameNumber(doc.price, found.price) THEN doc.price ELSE @,
                    !.image = IF doc.image # found.image THEN doc.image ELSE @]

\* What the catch of PUT /books/:id answers.
UpdateFailed(q, msg) ==
    Respond(q, Redirect("/books/:id/edit", <<"error", "Error updating book: ", msg>>))

\* PUT /books/:id up to Book.findById
UpdateBook(r) ==
    /\ Running(r, "updateBook", "")
    /\ LET q == reqs[r] IN
       \/ \E e \in Errors : Step(r, UpdateFailed(q, e.message))
       \/ /\ BookById(q.body.id) = {}
          /\ Step(r, Respond(q, Redirect("/books", <<"error", "Book not found", "">>)))
       \/ \E book \in BookById(q.body.id) :
            Step(r, [q EXCEPT !.found = book,
                              !.at = IF q.file # NoFile /\ book.image # NoFile
                                     THEN "destroy" ELSE "save"])
    /\ UNCHANGED <<stored, served>>

\* PUT /books/:id, cloudinary.uploader.destroy of the previous image: a failure
\* is logged and the handler goes on
UpdateDestroy(r) ==
    /\ Running(r, "updateBook", "destroy")
    /\ \/ imageStore' = imageStore \ {reqs[r].found.image}
       \/ UNCHANGED imageStore
    /\ Step(r, [reqs[r] EXCEPT !.at = "save"])
    /\ UNCHANGED <<accounts, sessions, cookie, books, nextId, nextFile, orders, served>>

\* PUT /books/:id, book.save()
UpdateSave(r) ==
    /\ Running(r, "updateBook", "save")
    /\ LET q == reqs[r]
           doc == Updated(q.found, q.body.title, q.body.price, q.file)
       IN
       \/ \* the store fails
          /\ \E e \in Errors : Step(r, UpdateFailed(q, e.message))
          /\ UNCHANGED books
       \/ \* validation fails on the price
          /\ doc.price = NaN
          /\ Step(r, UpdateFailed(q, "Cast to Number failed"))
          /\ UNCHANGED books
       \/ \* the document is no longer in the store
          /\ doc.price # NaN /\ Modified(q.found, doc) /\ BookById(q.body.id) = {}
          /\ Step(r, UpdateFailed(q, "No document found"))
          /\ UNCHANGED books
       \/ \* the changed paths are written, if any
          /\ doc.price # NaN
          /\ ~Modified(q.found, doc) \/ BookById(q.body.id) # {}
          /\ books' = {IF b.id = q.body.id THEN SavedOver(b, q.found, doc) ELSE b :
                         b \in books}
          /\ Step(r, Respond(q, Redirect("/books",
                       <<"success", "Book Updated Successfully", "">>)))
    /\ UNCHANGED <<accounts, sessions, cookie, nextId, imageStore, nextFile, orders, served>>

\* DELETE /books/:id (no try/catch)
DeleteBookHandler(r) ==
    /\ Running(r, "deleteBookHandler", "")
    /\ LET q == reqs[r] IN
       \/ /\ \E e \in Errors : Step(r, Reject(q, e))
          /\ UNCHANGED books
       \/ /\ books' = books \ BookById(q.body.id)
          /\ Step(r, Respond(q, Redirect("/books",
                       <<"success", "Book Deleted Successfully", "">>)))
    /\ UNCHANGED <<accounts, sessions, cookie, nextId, imageStore, nextFile, orders, served>>

\* What the catch of GET /dashboard answers.
DashboardFailed(q) ==
    Respond(q, Redirect("/books", <<"error", "Unable to load dashboard data.", "">>))

\* GET /dashboard, User.find()
DashboardHandler(r) ==
    /\ Running(r, "dashboardHandler", "")
    /\ \/ Step(r, DashboardFailed(reqs[r]))
       \/ Step(r, [reqs[r] EXCEPT !.at = "books"])
    /\ UNCHANGED <<stored, served>>

\* GET /dashboard, Book.find()
DashboardBooks(r) ==
    /\ Running(r, "dashboardHandler", "books")
    /\ \/ Step(r, DashboardFailed(reqs[r]))
       \/ Step(r, [reqs[r] EXCEPT !.at = "orders"])
    /\ UNCHANGED <<stored, served>>

\* GET /dashboard, Order.find().populate("books.bookId"), and the page
DashboardOrders(r) ==
    /\ Running(r, "dashboardHandler", "orders")
    /\ \/ Step(r, DashboardFailed(reqs[r]))
       \/ Step(r, Respond(reqs[r], Render("dashboard", 200, "")))
    /\ UNCHANGED <<stored, served>>

\* GET /books
ListingHandler(r) ==
    /\ Running(r, "listingHandler", "")
    /\ \/ Step(r, Respond(reqs[r], Send(500, "Error loading books")))
       \/ Step(r, Respond(reqs[r], Render("BooksListing", 200, "")))
    /\ UNCHANGED <<stored, served>>

\* GET /books/category/:category
CategoryHandler(r) ==
    /\ Running(r, "categoryHandler", "")
    /\ \/ Step(r, Respond(reqs[r], Send(500, "Error loading books by category")))
       \/ Step(r, Respond(reqs[r], Render("BooksListing", 200, "")))
    /\ UNCHANGED <<stored, served>>

\* GET /home
HomeHandler(r) ==
    /\ Running(r, "homeHandler", "")
    /\ \/ Step(r, Respond(reqs[r], Send(500, "Error in Home Page")))
       \/ Step(r, Respond(reqs[r], Render("home", 200, "")))
    /\ UNCHANGED <<stored, served>>

\* GET /books/:id/details
DetailsHandler(r) ==
    /\ Running(r, "detailsHandler", "")
    /\ LET q == reqs[r] IN
       \/ Step(r, Respond(q, Redirect("/books",
                    <<"error", "Error fetching book details", "">>)))
       \/ /\ BookById(q.body.id) = {}
          /\ Step(r, Respond(q, Redirect("/books", <<"error", "Book not found", "">>)))
       \/ /\ BookById(q.body.id) # {}
          /\ Step(r, Respond(q, Render("bookDetails", 200, "")))
    /\ UNCHANGED <<stored, served>>

\* POST /contact: transporter.sendMail resolves or rejects
ContactHandler(r) ==
    /\ Running(r, "contactHandler", "")
    /\ \/ Step(r, Respond(reqs[r], Redirect("/contact",
                    <<"error", "Something went wrong. Please try again.", "">>)))
       \/ Step(r, Respond(reqs[r], Redirect("/contact",
                    <<"success", "Your message has been sent successfully!", "">>)))
    /\ UNCHANGED <<stored, served>>

\* POST /cart (no try/catch): Book.findById, then the push onto the request's
\* session
CartAddHandler(r) ==
    /\ Running(r, "cartAddHandler", "")
    /\ LET q == reqs[r] IN
       \/ \E e \in Errors : Step(r, Reject(q, e))
       \/ /\ BookById(q.body.id) = {}
          /\ Step(r, Respond(q, Redirect("/books", <<>>)))
       \/ \E book \in BookById(q.body.id) :
            Step(r, Respond([q EXCEPT !.sess = CartPush(@, book), !.found = book],
                            Redirect("/cart", <<>>)))
    /\ UNCHANGED <<stored, served>>

\* POST /complete-order from newOrder.save() on
CompleteOrderHandler(r) ==
    /\ Running(r, "completeOrderHandler", "order")
    /\ LET q == reqs[r]
           order == NewOrder(q.body, CartOf(q.sess))
       IN
       \/ \* newOrder.save() rejects: validation fails, or the store does
          /\ Step(r, Respond([q EXCEPT !.sess = SessionAfterSave(@, FALSE)],
                             Redirect("/checkout",
                               <<"error", "Something went wrong while placing your order.", "">>)))
          /\ UNCHANGED orders
       \/ \* the order is saved
          /\ ValidOrder(order)
          /\ orders' = Append(orders, order)
          /\ Step(r, Respond([q EXCEPT !.sess = SessionAfterSave(@, TRUE)],
                             Redirect("/books",
                               <<"success", "Order placed successfully!", "">>)))
    /\ UNCHANGED <<accounts, sessions, cookie, books, nextId, imageStore, nextFile, served>>

----------------------------------------------------------------------------
\* Every step that serves the request in slot r.
Serve(r) ==
    \/ SessionLoad(r)
    \/ DeserializeUser(r)
    \/ End(r)
    \/ Upload(r)
    \/ RegisterHandler(r)
    \/ RegisterInsert(r)
    \/ Authenticate(r)
    \/ LogoutHandler(r)
    \/ Regenerate(r)
    \/ SessionSave(r)
    \/ CreateBook(r)
    \/ EditFormHandler(r)
    \/ UpdateBook(r)
    \/ UpdateDestroy(r)
    \/ UpdateSave(r)
    \/ DeleteBookHandler(r)
    \/ DashboardHandler(r)
    \/ DashboardBooks(r)
    \/ DashboardOrders(r)
    \/ ListingHandler(r)
    \/ CategoryHandler(r)
    \/ HomeHandler(r)
    \/ DetailsHandler(r)
    \/ ContactHandler(r)
    \/ CartAddHandler(r)
    \/ CompleteOrderHandler(r)

Next == Submit \/ \E r \in Slots : Serve(r)

Spec == Init /\ [][Next]_vars

----------------------------------------------------------------------------
\* Shorthands of the properties.

RedirectedTo(resp, to) == resp.kind = "redirect" /\ resp.to = to
FlashIs(resp, type) == resp.flash # <<>> /\ resp.flash[1] = type

\* This step is a step of the request in slot r: the step in which it reaches
\* its route with its session and its user, the step that produces its
\* response, the end of its response.
Stepped(r) == reqs'[r] # reqs[r]
Routed(r) == reqs[r].st = "run" /\ reqs[r].pc = 0 /\ reqs'[r].pc >= 1
Answers(r) == reqs[r].st # "ending" /\ reqs'[r].st = "ending"
Ends(r) == reqs[r].st = "ending" /\ reqs'[r].st = "done"
InFlight(r) == reqs[r].st \in {"run", "ending"}
Answered(r) == reqs[r].st = "done"

\* The session the client's cookie names.
HasSession == cookie \in DOMAIN sessions
ClientCart == IF HasSession /\ sessions[cookie].hasCart THEN sessions[cookie].cart ELSE <<>>

RECURSIVE SumLines(_, _)
\* price x quantity summed over the first n entries, entry after entry, as
\* doubles; an absent quantity is 1 and a null price 0
SumLines(items, n) ==
    IF n = 0 THEN NumberOf(0)
    ELSE Plus(SumLines(items, n - 1),
              Times(IF items[n].price.k = "null" THEN NumberOf(0) ELSE items[n].price,
                    NumberOf(IF items[n].qty = NoQty THEN 1 ELSE items[n].qty)))

RECURSIVE Without(_, _)
\* the entries of cart whose book id is not id, in order
Without(cart, id) ==
    IF cart = <<>> THEN <<>>
    ELSE (IF cart[1].id = id THEN <<>> ELSE <<cart[1]>>) \o Without(Tail(cart), id)

\* The request in slot r is at newOrder.save().
AtOrderSave(r) == Running(r, "completeOrderHandler", "order")

\* C1: a successful checkout appends exactly one order; the cart it is built
\* from is the session's cart as the request found it, which is not empty; its
\* line items are the entries of that cart in order (quantity 1 when the entry
\* has none) and its totalAmount is the sum of price x quantity over them, taken
\* entry after entry in double precision, whatever total the request body
\* carries; nothing else ever adds an order.
C1_CheckoutTotal ==
    [][ /\ \A r \in Slots :
             (AtOrderSave(r) /\ Stepped(r) /\ RedirectedTo(reqs'[r].resp, "/books")) =>
                LET cart == CartOf(reqs[r].orig) IN
                /\ cart # <<>>
                /\ Len(orders') = Len(orders) + 1
                /\ SubSeq(orders', 1, Len(orders)) = orders
                /\ LET o == orders'[Len(orders')] IN
                     /\ o.totalAmount = SumLines(cart, Len(cart))
                     /\ Len(o.books) = Len(cart)
                     /\ \A i \in 1..Len(cart) :
                          /\ o.books[i].bookId = cart[i].id
                          /\ o.books[i].title = cart[i].title
                          /\ o.books[i].price = cart[i].price
                          /\ o.books[i].quantity =
                               (IF cart[i].qty = NoQty THEN 1 ELSE cart[i].qty)
        /\ (orders' # orders) =>
             \E r \in Slots :
                AtOrderSave(r) /\ Stepped(r) /\ RedirectedTo(reqs'[r].resp, "/books")
      ]_vars

\* A checkout that stored the order 10 x 1 + 5 x 2 = 20 while the body said 99.
C1_Witness ==
    \E r \in Slots :
       /\ Answered(r) /\ reqs[r].op = "completeOrder"
       /\ RedirectedTo(reqs[r].resp, "/books")
       /\ \E i \in 1..Len(orders) :
            /\ Len(orders[i].books) = 2
            /\ orders[i].books[1].quantity = 1
            /\ orders[i].books[2].quantity = 2
            /\ orders[i].totalAmount = NumberOf(20)

\* C2: when the save of the order fails, no order is added, the request's cart
\* stays as it is, the answer is a redirect to /checkout with an error, and the
\* end of that response leaves the client's session with the cart the request
\* found; a checkout request that has its session changes its cart only in the
\* step that stores the order.
C2_CartKeptOnFailure ==
    [][ \A r \in Slots :
          /\ (AtOrderSave(r) /\ Stepped(r) /\ orders' = orders) =>
               /\ reqs'[r].sess.cart = reqs[r].orig.cart
               /\ reqs'[r].sess.hasCart = reqs[r].orig.hasCart
               /\ RedirectedTo(reqs'[r].resp, "/checkout")
               /\ FlashIs(reqs'[r].resp, "error")
          /\ (Ends(r) /\ reqs[r].op = "completeOrder"
                /\ RedirectedTo(reqs[r].resp, "/checkout")) =>
               /\ orders' = orders
               /\ \/ sessions' = sessions /\ cookie' = cookie
                  \/ /\ cookie' \in DOMAIN sessions'
                     /\ sessions'[cookie'].cart = reqs[r].orig.cart
                     /\ sessions'[cookie'].hasCart = reqs[r].orig.hasCart
                     /\ reqs[r].orig.cart # <<>>
          /\ (reqs[r].op = "completeOrder" /\ reqs[r].st = "run" /\ reqs[r].pc >= 1
                /\ Stepped(r) /\ reqs'[r].sess.cart # reqs[r].sess.cart) =>
               Len(orders') = Len(orders) + 1
      ]_vars

\* A failed checkout that left the cart in the session and no order behind.
C2_Witness ==
    \E r \in Slots :
       /\ Answered(r) /\ reqs[r].op = "completeOrder"
       /\ RedirectedTo(reqs[r].resp, "/checkout")
       /\ Len(ClientCart) = 2
       /\ orders = <<>>

\* C3: a checkout of a missing or empty cart is answered as soon as it reaches
\* its route, with a redirect to /cart and an error, its cart is left as it
\* was, and no step of it adds an order; a checkout reaches the save only with
\* a cart that is not empty; and no stored order has an empty list of line
\* items.
C3_EmptyCartNoOrder ==
    /\ [](\A i \in 1..Len(orders) : Len(orders[i].books) > 0)
    /\ [](\A r \in Slots : AtOrderSave(r) => CartOf(reqs[r].sess) # <<>>)
    /\ [][ \A r \in Slots :
             /\ (Routed(r) /\ reqs'[r].op = "completeOrder"
                   /\ CartOf(reqs'[r].orig) = <<>>) =>
                  /\ Answers(r)
                  /\ RedirectedTo(reqs'[r].resp, "/cart")
                  /\ FlashIs(reqs'[r].resp, "error")
                  /\ reqs'[r].sess.cart = <<>>
                  /\ reqs'[r].sess.hasCart = reqs'[r].orig.hasCart
                  /\ orders' = orders
             /\ (Ends(r) /\ reqs[r].op = "completeOrder"
                   /\ RedirectedTo(reqs[r].resp, "/cart")) =>
                  /\ orders' = orders
                  /\ \/ sessions' = sessions /\ cookie' = cookie
                     \/ cookie' \in DOMAIN sessions' /\ sessions'[cookie'].cart = <<>>
         ]_vars

\* A checkout refused on a cart that exists and has been emptied.
C3_Witness ==
    \E r \in Slots :
       /\ Answered(r) /\ reqs[r].op = "completeOrder"
       /\ RedirectedTo(reqs[r].resp, "/cart")
       /\ HasSession /\ sessions[cookie].hasCart /\ sessions[cookie].cart = <<>>
       /\ orders = <<>>

AdminOnlyOps == {"postNew", "postBooks", "putBook", "deleteBook", "dashboard"}

\* C4: no step of a request to an admin-only operation whose caller is not an
\* admin changes the books, and such a request, once it has reached its route,
\* is answered by a redirect: to /login when nobody is logged in, to /books when
\* the account is not an admin; never by an error page.
C4_AdminOnly ==
    [][ \A r \in Slots :
          /\ (reqs[r].st = "run" /\ reqs[r].op \in AdminOnlyOps
                /\ ~IsAdminUser(reqs[r]) /\ Stepped(r)) => books' = books
          /\ (Answers(r) /\ reqs'[r].pc >= 1 /\ reqs'[r].op \in AdminOnlyOps
                /\ ~IsAdminUser(reqs'[r])) =>
               IF IsAuthenticated(reqs'[r])
               THEN RedirectedTo(reqs'[r].resp, "/books")
               ELSE RedirectedTo(reqs'[r].resp, "/login")
      ]_vars

\* C5: when the response of an add ends, the last entry of the client's cart
\* equals the book as the add read it; and no step of an update or a delete of
\* a book changes a stored order, or leaves the client's session with a cart
\* other than the one the request found.
C5_Snapshots ==
    [][ \A r \in Slots :
          /\ (Ends(r) /\ reqs[r].op = "cartAdd" /\ RedirectedTo(reqs[r].resp, "/cart")) =>
               /\ cookie' \in DOMAIN sessions'
               /\ LET cart == sessions'[cookie'].cart IN
                    cart # <<>> /\ cart[Len(cart)] = reqs[r].found
          /\ (reqs[r].op \in {"putBook", "deleteBook"} /\ InFlight(r) /\ Stepped(r)) =>
               /\ orders' = orders
               /\ \/ sessions' = sessions
                  \/ /\ cookie' \in DOMAIN sessions'
                     /\ sessions'[cookie'].cart = reqs[r].orig.cart
                     /\ sessions'[cookie'].hasCart = reqs[r].orig.hasCart
      ]_vars

\* The entries of the configured allow-lists.
AdminEmailEntries == { <<"r", "@">> }
AdminUsernameEntries == { <<"b">> }

\* C6: every account is an admin exactly when its email or its username is an
\* entry of the allow-lists, there is one account per username and per email,
\* and no step removes or alters an account.
C6_RoleFixedAtRegistration ==
    /\ [](\A a \in accounts :
            /\ (a.role = "admin") <=>
                 (a.email \in AdminEmailEntries \/ a.username \in AdminUsernameEntries)
            /\ a.role \in {"user", "admin"}
            /\ \A a2 \in accounts :
                 (a2.username = a.username \/ a2.email = a.email) => a2 = a)
    /\ [][accounts \subseteq accounts']_vars

\* An account made admin by its username alone has logged in again, next to an
\* account that is a user.
C6_Witness ==
    \E r \in Slots :
       /\ Answered(r) /\ reqs[r].op = "login" /\ RedirectedTo(reqs[r].resp, "/books")
       /\ HasSession
       /\ \E a \in accounts :
            /\ a.role = "admin" /\ a.email \notin AdminEmailEntries
            /\ sessions[cookie].user = a.username
       /\ \E a \in accounts : a.role = "user"

\* a cart entry as the session store holds it
AsStored(item) ==
    [item EXCEPT !.price = IF @.k \in {"NaN", "Infinity"} THEN NullPrice
                            ELSE IF @.k = "number" /\ @.m = <<>> THEN NumberOf(0)
                            ELSE @]

\* C7: an add of an existing book appends one entry to the request's cart (also
\* when the book is already in it); an add of a missing book changes nothing; a
\* remove on a session without a cart changes nothing and creates no cart; a
\* remove drops exactly the entries with the given id and keeps the others in
\* order; and the end of the response leaves the client's session with the
\* request's cart.
C7_CartLog ==
    [][ \A r \in Slots :
          /\ (Routed(r) /\ reqs'[r].op = "cartAdd") =>
               reqs'[r].sess = [reqs'[r].orig EXCEPT !.flash = reqs'[r].sess.flash]
          /\ (Running(r, "cartAddHandler", "") /\ Stepped(r)) =>
               \/ /\ ~ \E b \in books : b.id = reqs[r].body.id
                  /\ reqs'[r].sess = reqs[r].sess
                  /\ RedirectedTo(reqs'[r].resp, "/books")
               \/ reqs'[r].threw /\ reqs'[r].sess = reqs[r].sess
               \/ \E b \in books :
                    /\ b.id = reqs[r].body.id
                    /\ reqs'[r].sess =
                         [reqs[r].sess EXCEPT !.hasCart = TRUE,
                                              !.cart = Append(CartOf(reqs[r].sess), b)]
          /\ (Routed(r) /\ reqs'[r].op = "cartRemove" /\ IsAuthenticated(reqs'[r])) =>
               /\ reqs'[r].sess.hasCart = reqs'[r].orig.hasCart
               /\ reqs'[r].sess.user = reqs'[r].orig.user
               /\ reqs'[r].sess.cart =
                    (IF reqs'[r].orig.hasCart
                     THEN Without(reqs'[r].orig.cart, reqs'[r].body.id) ELSE <<>>)
          /\ (Ends(r) /\ reqs[r].op \in {"cartAdd", "cartRemove"}) =>
               LET mine == [i \in 1..Len(reqs[r].sess.cart) |-> AsStored(reqs[r].sess.cart[i])] IN
               \/ /\ sessions' = sessions /\ cookie' = cookie
                  /\ mine = reqs[r].orig.cart
                  /\ reqs[r].sess.hasCart = reqs[r].orig.hasCart
               \/ /\ cookie' \in DOMAIN sessions'
                  /\ sessions'[cookie'].cart = mine
                  /\ sessions'[cookie'].hasCart = reqs[r].sess.hasCart
      ]_vars

\* The same book was added twice and the cart holds two equal entries.
C7_Witness ==
    \E r \in Slots :
       /\ Answered(r) /\ reqs[r].op = "cartAdd" /\ RedirectedTo(reqs[r].resp, "/cart")
       /\ Len(ClientCart) = 2
       /\ ClientCart[1] = ClientCart[2]

\* The request has not yet passed every login or role check of its route.
GatePending(q) ==
    /\ q.st = "run"
    /\ \E i \in Max(q.pc, 1)..Len(Chain(q.op)) :
          Chain(q.op)[i] \in {"isLoggedIn", "isAdmin"}

\* C8: on a gated route no step of a request stores anything before the login
\* and role checks of the request have passed.
C8_ChecksFirst ==
    [][\A r \in Slots : (GatePending(reqs[r]) /\ Stepped(r)) => UNCHANGED stored]_vars

\* C9: a request to an unknown route is answered with the 404 not-found page.
C9_UnknownRouteNotFound ==
    \A r \in Slots :
       (Answered(r) /\ reqs[r].op = "unknown") =>
           reqs[r].resp = Render("error", 404, "Page Not Found")

\* C10: a registration is answered either with success, one account of the
\* submitted name then being stored and the request's session naming it, or
\* with a failure, the request then having written no account, its session
\* naming whom it named before, and the reason being given to the caller.
C10_RegisterAllOrNothing ==
    [][ \A r \in Slots :
          (reqs[r].op = "register" /\ reqs[r].st = "run" /\ Answers(r)) =>
             \/ /\ RedirectedTo(reqs'[r].resp, "/books")
                /\ \E a \in accounts' :
                     /\ a.username = reqs[r].body.username
                     /\ a.email = reqs[r].body.email
                     /\ reqs'[r].sess.user = a.username
             \/ /\ ~RedirectedTo(reqs'[r].resp, "/books")
                /\ accounts' = accounts
                /\ reqs[r].at \in {"load", "deserialize", "", "insert"}
                /\ reqs'[r].sess.user = reqs[r].orig.user
                /\ \/ FlashIs(reqs'[r].resp, "error")
                      /\ RedirectedTo(reqs'[r].resp, "/register")
                   \/ reqs'[r].threw
      ]_vars
====
